---- MODULE Spec2Model ----
(***************************************************************************)
(* A model of src/raspberry_pi/dashcam.py: the DashcamRecorder (circular   *)
(* frame buffer, capture loop, save_clip, capture_screenshot, storage      *)
(* cleanup), ArduinoInterface.read_sensor_data, ServerInterface and the    *)
(* dispatch loop of main().                                                *)
(*                                                                         *)
(* Time is a discrete clock `now` counted in frame intervals: one tick is  *)
(* 1/VIDEO_FPS seconds, so that time.sleep(1 / VIDEO_FPS) is one tick and  *)
(* time.sleep(s) is s * VIDEO_FPS ticks.  A sleeping thread wakes at or    *)
(* after its wake time, never before.  The second-resolution strftime of   *)
(* the file names is now \div VIDEO_FPS.                                   *)
(*                                                                         *)
(* The configuration of the source (30 fps, 30 s of buffer, 5+5 s and 3+3  *)
(* s clips, 20 GB) is scaled down; the scaled values are the bounds of the *)
(* model; a clip window stays shorter than the buffer, as in the source.   *)
(***************************************************************************)
EXTENDS Integers, Sequences, FiniteSets, TLC

\* ------------------------------------------------------------ configuration
\* dashcam.py:51 VIDEO_FPS = 30, scaled: ticks per second.
VIDEO_FPS == 1
\* dashcam.py:53 BUFFER_DURATION = 30, scaled: seconds of video in the buffer.
BUFFER_DURATION == 3
\* dashcam.py:57 MAX_STORAGE_GB = 20, scaled: the quota in size units.
MAX_STORAGE_GB == 2
\* dashcam.py:380 save_clip("harsh_braking", seconds_before=5, seconds_after=5), scaled.
HARSH_SECONDS == 1
\* dashcam.py:395 save_clip("follow_distance", seconds_before=3, seconds_after=3), scaled.
FOLLOW_SECONDS == 1

\* ------------------------------------------------------------------ bounds
\* The clock of SpecBuffer stops at MaxTime ticks.
MaxTime == 4
\* The clock of SpecClips stops at MaxClipTime ticks.
MaxClipTime == 2
\* Extractor threads main() may start in one run.
MaxThreads == 2
\* Extractor threads main() may start in one run of SpecBuffer.
MaxBufferThreads == 1
\* The encoder writes a clip of 1..MaxClipSize size units.
MaxClipSize == 2
\* Latitudes and longitudes a sensor record may carry: 1..MaxCoord.
MaxCoord == 1
\* Calls of capture_screenshot in one run.
MaxShots == 1

Threads == 1..MaxThreads
NoThread == 0
\* The caller of capture_screenshot, as a holder of the lock.
ShotThread == MaxThreads + 1

VARIABLES
    now,                \* the clock, in ticks
    USE_PICAMERA,       \* dashcam.py:34-41, fixed at import
    is_recording,       \* DashcamRecorder.is_recording
    camera,             \* DashcamRecorder.camera: open or released; the caller of stop()
    buffer,             \* DashcamRecorder.buffer: deque of (timestamp, frame)
    lock,               \* DashcamRecorder.lock: its holder, or NoThread
    cap,                \* the capture thread: pc, the frame in hand, its wake time
    pushed,             \* history: every frame appended to buffer, in order
    arduino_connected,  \* main(): arduino_connected / ArduinoInterface.is_connected
    sensor_data,        \* main(): the local sensor_data
    line_read,          \* history: what the port held at the last read
    current_location,   \* the global current_location
    ext,                \* the save_and_upload threads
    fs,                 \* CLIPS_FOLDER: path -> file
    registered,         \* history: the calls of ServerInterface.upload_clip that posted
    events,             \* history: the calls of send_harsh_braking / send_follow_distance
    shot                \* the caller of capture_screenshot

vars == <<now, USE_PICAMERA, is_recording, camera, buffer, lock, cap, pushed,
          arduino_connected, sensor_data, line_read, current_location, ext, fs,
          registered, events, shot>>

recorderVars == <<is_recording, camera, buffer, lock, cap, pushed>>
mainVars == <<arduino_connected, sensor_data, line_read, current_location>>
serverVars == <<registered, events>>

\* --------------------------------------------------------------- helpers
Min(a, b) == IF a <= b THEN a ELSE b

\* s[-n:] of Python for 0 < n: the last n elements, all of s when n >= len(s).
LastN(s, n) == SubSeq(s, Len(s) - Min(n, Len(s)) + 1, Len(s))

\* ------------------------------------------------------------ the buffer
\* deque(maxlen=BUFFER_DURATION * VIDEO_FPS)
Capacity == BUFFER_DURATION * VIDEO_FPS

\* A deque that appends without bound (the mutant of DequeAppend).
DequeAppendUnbounded(b, frame) == Append(b, frame)

\* A deque that takes new frames at its left end (a mutant of DequeAppend).
DequeAppendLeft(b, frame) ==
    IF Len(b) >= Capacity THEN <<frame>> \o SubSeq(b, 1, Len(b) - 1) ELSE <<frame>> \o b

\* deque.append on a deque with maxlen: at maxlen the leftmost item is dropped.
DequeAppend(b, frame) ==
    IF Len(b) >= Capacity THEN Append(Tail(b), frame) ELSE Append(b, frame)

\* ------------------------------------------------------------- the clock
TickUntil(limit) ==
    /\ now < limit
    /\ now' = now + 1
    /\ UNCHANGED <<USE_PICAMERA, recorderVars, mainVars, ext, fs, serverVars, shot>>

\* ------------------------------------------------------ the capture loop
\* while self.is_recording:
CaptureLoopTest ==
    /\ cap.pc = "loop"
    /\ cap' = [cap EXCEPT !.pc = IF is_recording THEN "capture" ELSE "exited"]
    /\ UNCHANGED <<now, USE_PICAMERA, is_recording, camera, buffer, lock, pushed,
                   mainVars, ext, fs, serverVars, shot>>

\* What a capture call may come to.  OpenCV's read() hands back ret = False when
\* it has no frame, as it does on a released capture.  Picamera2's capture_array
\* hands back a frame or raises; on a stopped camera no request completes any
\* more: the call raises or never returns.
CaptureOutcomes(picamera, open) ==
    IF picamera
    THEN IF open THEN {"frame", "raise"} ELSE {"raise", "hang"}
    ELSE IF open THEN {"frame", "noframe"} ELSE {"noframe"}

\* frame = self.camera.capture_array() / ret, frame = self.camera.read();
\* timestamp = time.time().  With ret = False the tick is skipped; an exception
\* is caught nowhere and ends the thread.
CaptureFrame ==
    /\ cap.pc = "capture"
    /\ \E outcome \in CaptureOutcomes(USE_PICAMERA, camera.open) :
        cap' = CASE outcome = "frame" ->
                      [cap EXCEPT !.pc = "push", !.frame = <<now, Len(pushed) + 1>>]
                 [] outcome = "noframe" ->
                      [cap EXCEPT !.pc = "sleep", !.wake = now + 1,
                                  !.late = @ \/ ~camera.open]
                 [] outcome = "raise" ->
                      [cap EXCEPT !.pc = "crashed", !.late = @ \/ ~camera.open]
                 [] OTHER ->
                      [cap EXCEPT !.pc = "hung", !.late = @ \/ ~camera.open]
    /\ UNCHANGED <<now, USE_PICAMERA, is_recording, camera, buffer, lock, pushed,
                   mainVars, ext, fs, serverVars, shot>>

\* with self.lock: self.buffer.append((timestamp, frame)); then time.sleep(1 / VIDEO_FPS)
CapturePush ==
    /\ cap.pc = "push"
    /\ lock = NoThread
    /\ buffer' = DequeAppend(buffer, cap.frame)
    /\ pushed' = Append(pushed, cap.frame)
    /\ cap' = [cap EXCEPT !.pc = "sleep", !.wake = now + 1]
    /\ UNCHANGED <<now, USE_PICAMERA, is_recording, camera, lock,
                   mainVars, ext, fs, serverVars, shot>>

\* time.sleep(1 / VIDEO_FPS) returns
CaptureWake ==
    /\ cap.pc = "sleep"
    /\ now >= cap.wake
    /\ cap' = [cap EXCEPT !.pc = "loop"]
    /\ UNCHANGED <<now, USE_PICAMERA, is_recording, camera, buffer, lock, pushed,
                   mainVars, ext, fs, serverVars, shot>>

\* ------------------------------------------------------- the sensor link
Fields == {"latitude", "longitude", "harsh_braking_detected", "follow_distance_violation"}
Flags == {"harsh_braking_detected", "follow_distance_violation"}
Coords == 1..MaxCoord

\* The empty dict {}.
EmptyDict == [k \in {} |-> 0]

\* dict.get(key, default)
Get(d, key, default) == IF key \in DOMAIN d THEN d[key] ELSE default

\* A JSON object with the given members; Absent stands for a member left out.
Absent == "absent"
MkDict(lat, lon, hb, fd) ==
    [k \in { f \in Fields :
                \/ f = "latitude" /\ lat # 0
                \/ f = "longitude" /\ lon # 0
                \/ f = "harsh_braking_detected" /\ hb # Absent
                \/ f = "follow_distance_violation" /\ fd # Absent } |->
        CASE k = "latitude" -> lat
          [] k = "longitude" -> lon
          [] k = "harsh_braking_detected" -> (hb = "true")
          [] OTHER -> (fd = "true")]

\* The JSON objects a line may hold: any subset of the four fields, coordinates
\* numbers (0 here: the member is left out) and flags booleans.
SensorDicts ==
    { MkDict(lat, lon, hb, fd) :
        lat \in 0..MaxCoord, lon \in 0..MaxCoord,
        hb \in {Absent, "true", "false"}, fd \in {Absent, "true", "false"} }

\* What the serial port holds at a read: nothing (in_waiting = 0), a line that is
\* no JSON object (no leading brace), a line with a leading brace that json.loads
\* rejects, bytes that are no UTF-8, or a JSON object.
SerialLines ==
    { [kind |-> k, data |-> EmptyDict] : k \in {"none", "text", "badjson", "badutf8"} }
    \cup { [kind |-> "json", data |-> d] : d \in SensorDicts }

\* A read_sensor_data that hands on what it could parse of a broken line (the
\* mutant of read_sensor_data): a record with its flags set.
read_sensor_data_lenient(connected, line) ==
    IF ~connected \/ line.kind = "none" THEN EmptyDict
    ELSE IF line.kind = "json" THEN line.data
    ELSE [k \in Flags |-> TRUE]

\* ArduinoInterface.read_sensor_data: {} unless a line is waiting, starts with a
\* brace and parses; JSONDecodeError and UnicodeDecodeError are caught.
read_sensor_data(connected, line) ==
    IF ~connected THEN EmptyDict
    ELSE IF line.kind = "json" THEN line.data
    ELSE EmptyDict

\* ------------------------------------------------------- extractor threads
UnbornThread ==
    [pc |-> "unborn", event_type |-> "", seconds_before |-> 0, seconds_after |-> 0,
     event_time |-> 0, wake |-> 0, filepath |-> <<>>, frames |-> <<>>,
     snap_time |-> 0, snap_buffer |-> <<>>, snap_pushed |-> 0, encode |-> "",
     files |-> <<>>, total_size |-> 0, trigger |-> [kind |-> "none", data |-> EmptyDict]]

Spawned == { t \in Threads : ext[t].pc # "unborn" }

\* threading.Thread(target=save_and_upload).start(): the thread enters save_clip
\* and its time.sleep(seconds_after).
StartThread(etype, seconds, line) ==
    [UnbornThread EXCEPT !.pc = "sleep", !.event_type = etype, !.trigger = line,
                         !.seconds_before = seconds, !.seconds_after = seconds,
                         !.event_time = now, !.wake = now + seconds * VIDEO_FPS]

\* One turn of main()'s while loop with `line` on the serial port, in a run that
\* starts `limit` threads at most.
MainLoopStep(line, limit) ==
    /\ camera.stop = "idle"
    /\ arduino_connected
    /\ LET data == read_sensor_data(arduino_connected, line)
           hb == data # EmptyDict /\ Get(data, "harsh_braking_detected", FALSE)
           fd == data # EmptyDict /\ Get(data, "follow_distance_violation", FALSE)
           n == Cardinality(Spawned)
           t1 == n + 1
           t2 == IF hb THEN n + 2 ELSE n + 1
       IN /\ n + (IF hb THEN 1 ELSE 0) + (IF fd THEN 1 ELSE 0) <= limit
          /\ sensor_data' = data
          /\ line_read' = line
          /\ current_location' =
                IF data # EmptyDict
                THEN [latitude |-> Get(data, "latitude", 0),
                      longitude |-> Get(data, "longitude", 0)]
                ELSE current_location
          /\ ext' = [t \in Threads |->
                        IF hb /\ t = t1 THEN StartThread("harsh_braking", HARSH_SECONDS, line)
                        ELSE IF fd /\ t = t2 THEN StartThread("follow_distance", FOLLOW_SECONDS, line)
                        ELSE ext[t]]
    /\ UNCHANGED <<now, USE_PICAMERA, recorderVars, arduino_connected, fs, serverVars, shot>>

\* The lines of a sensor that sends every record whole: all four fields.
CompleteLines ==
    { l \in SerialLines : l.kind = "json" /\ DOMAIN l.data = Fields }

\* The whole records that carry a trigger.
TriggerLines ==
    { l \in CompleteLines :
        l.data["harsh_braking_detected"] \/ l.data["follow_distance_violation"] }

\* main()'s loop reads whatever the port holds.
ReadSensor == \E line \in SerialLines : MainLoopStep(line, MaxThreads)

\* main()'s loop at a whole record that carries a trigger.
ReadTrigger == \E line \in TriggerLines : MainLoopStep(line, MaxThreads)

\* The same in a run of SpecBuffer.
ReadBufferTrigger == \E line \in TriggerLines : MainLoopStep(line, MaxBufferThreads)

\* --------------------------------------------------------------- save_clip
\* CLIPS_FOLDER / f"{event_type}_{timestamp}.{ext}" with timestamp =
\* datetime.now().strftime("%Y%m%d_%H%M%S"): the clock cut to whole seconds.
ClipPath(etype, t, suffix) == <<etype, t \div VIDEO_FPS, suffix>>

\* The first total_frames frames instead of the last (the mutant of ClipFrames).
ClipFramesOldest(frames, seconds_before, seconds_after) ==
    LET total_frames == (seconds_before + seconds_after) * VIDEO_FPS
    IN IF Len(frames) > total_frames THEN SubSeq(frames, 1, total_frames) ELSE frames

\* total_frames = (seconds_before + seconds_after) * VIDEO_FPS;
\* if len(frames) > total_frames: frames = frames[-total_frames:]
ClipFrames(frames, seconds_before, seconds_after) ==
    LET total_frames == (seconds_before + seconds_after) * VIDEO_FPS
    IN IF Len(frames) > total_frames THEN LastN(frames, total_frames) ELSE frames

\* time.sleep(seconds_after) returns: at the wake time or later.
SleepIsOver(wake) == now >= wake

\* time.sleep(seconds_after) returns; the file name is made from the clock.
SaveClipWake(t) ==
    /\ ext[t].pc = "sleep"
    /\ SleepIsOver(ext[t].wake)
    /\ ext' = [ext EXCEPT ![t].pc = "snapshot",
                          ![t].filepath = ClipPath(ext[t].event_type, now, "mp4")]
    /\ UNCHANGED <<now, USE_PICAMERA, recorderVars, mainVars, fs, serverVars, shot>>

\* with self.lock: frames = list(self.buffer); then the cut to total_frames.
SaveClipSnapshot(t) ==
    /\ ext[t].pc = "snapshot"
    /\ lock = NoThread
    /\ ext' = [ext EXCEPT ![t].pc = "open",
                          ![t].frames = ClipFrames(buffer, ext[t].seconds_before,
                                                   ext[t].seconds_after),
                          ![t].snap_time = now,
                          ![t].snap_buffer = buffer,
                          ![t].snap_pushed = Len(pushed)]
    /\ UNCHANGED <<now, USE_PICAMERA, recorderVars, mainVars, fs, serverVars, shot>>

\* A file as the directory lists it: its size, its modification time, the
\* threads that hold it open for writing, and what was last written to it.
NewFile(t) == [size |-> 0, mtime |-> now, open |-> {t}, content |-> <<>>]

\* out = cv2.VideoWriter(str(filepath), ...): creates or truncates the file.  A
\* writer that cannot open the file raises nothing: isOpened() is false and the
\* writes that follow do nothing.
SaveClipOpen(t) ==
    /\ ext[t].pc = "open"
    /\ \E opened \in BOOLEAN :
        LET p == ext[t].filepath
        IN IF opened
           THEN /\ fs' = [q \in DOMAIN fs \cup {p} |->
                            IF q = p
                            THEN [NewFile(t) EXCEPT
                                    !.open = {t} \cup (IF p \in DOMAIN fs THEN fs[p].open ELSE {})]
                            ELSE fs[q]]
                /\ ext' = [ext EXCEPT ![t].pc = "write", ![t].encode = "opened"]
           ELSE /\ fs' = fs
                /\ ext' = [ext EXCEPT ![t].pc = "write", ![t].encode = "nofile"]
    /\ UNCHANGED <<now, USE_PICAMERA, recorderVars, mainVars, serverVars, shot>>

\* for _, frame in frames: out.write(frame); out.release().  The write may fail
\* part of the way (a full disk): cv2 raises nothing and a partial file stays.
\* A file that a cleanup has unlinked meanwhile is written to no more.
SaveClipWrite(t) ==
    /\ ext[t].pc = "write"
    /\ LET p == ext[t].filepath
       IN IF ext[t].encode = "nofile"
          THEN /\ fs' = fs
               /\ ext' = [ext EXCEPT ![t].pc = "scan"]
          ELSE \E outcome \in {"ok", "partial"} :
               \E size \in (IF outcome = "ok" THEN 1..MaxClipSize ELSE {0}) :
                /\ fs' = IF p \in DOMAIN fs /\ t \in fs[p].open
                         THEN [fs EXCEPT ![p].size = size, ![p].mtime = now,
                                         ![p].open = @ \ {t},
                                         ![p].content = ext[t].frames]
                         ELSE fs
                /\ ext' = [ext EXCEPT ![t].pc = "scan", ![t].encode = outcome]
    /\ UNCHANGED <<now, USE_PICAMERA, recorderVars, mainVars, serverVars, shot>>

\* ------------------------------------------------------ _cleanup_old_clips
RECURSIVE SumSizes(_, _)
SumSizes(dir, paths) ==
    IF paths = {} THEN 0
    ELSE LET p == CHOOSE q \in paths : TRUE
         IN dir[p].size + SumSizes(dir, paths \ {p})

\* sum(f.stat().st_size for f in CLIPS_FOLDER.glob("*") if f.is_file())
DirSize(dir) == SumSizes(dir, DOMAIN dir)

\* if total_size_gb > MAX_STORAGE_GB
OverLimit(total) == total > MAX_STORAGE_GB

\* total_size_gb > MAX_STORAGE_GB * 0.8
OverTarget(total) == 10 * total > 8 * MAX_STORAGE_GB

\* sorted(CLIPS_FOLDER.glob("*"), key=lambda f: f.stat().st_mtime): the listings
\* of the directory in ascending modification time; files of one modification
\* time come in the order glob yields them, which is any order.
SortedByMtime(dir) ==
    { s \in [1..Cardinality(DOMAIN dir) -> DOMAIN dir] :
        /\ \A i, j \in DOMAIN s : i # j => s[i] # s[j]
        /\ \A i, j \in DOMAIN s : i < j => dir[s[i]].mtime <= dir[s[j]].mtime }

\* total_size = ...; if total_size_gb > MAX_STORAGE_GB: (else the cleanup returns)
CleanupScan(t) ==
    /\ ext[t].pc = "scan"
    /\ LET total == DirSize(fs)
       IN ext' = [ext EXCEPT ![t].total_size = total,
                             ![t].pc = IF OverLimit(total) THEN "sort" ELSE "upload"]
    /\ UNCHANGED <<now, USE_PICAMERA, recorderVars, mainVars, fs, serverVars, shot>>

\* files = sorted(...)
CleanupSort(t) ==
    /\ ext[t].pc = "sort"
    /\ \E s \in SortedByMtime(fs) :
        ext' = [ext EXCEPT ![t].files = s, ![t].pc = "evict"]
    /\ UNCHANGED <<now, USE_PICAMERA, recorderVars, mainVars, fs, serverVars, shot>>

\* One turn of: while total_size_gb > MAX_STORAGE_GB * 0.8 and files:
\*     oldest = files.pop(0); total_size_gb -= oldest.stat().st_size; oldest.unlink()
\* oldest.stat() raises FileNotFoundError on a file that is gone; nothing catches
\* it, in _cleanup_old_clips, save_clip or save_and_upload: the thread ends.
CleanupEvict(t) ==
    /\ ext[t].pc = "evict"
    /\ IF OverTarget(ext[t].total_size) /\ ext[t].files # <<>>
       THEN LET oldest == Head(ext[t].files)
            IN IF oldest \in DOMAIN fs
               THEN /\ fs' = [q \in DOMAIN fs \ {oldest} |-> fs[q]]
                    /\ ext' = [ext EXCEPT ![t].files = Tail(@),
                                          ![t].total_size = @ - fs[oldest].size]
               ELSE /\ fs' = fs
                    /\ ext' = [ext EXCEPT ![t].files = Tail(@), ![t].pc = "crashed"]
       ELSE /\ fs' = fs
            /\ ext' = [ext EXCEPT ![t].pc = "upload"]
    /\ UNCHANGED <<now, USE_PICAMERA, recorderVars, mainVars, serverVars, shot>>

\* --------------------------------------------------------- save_and_upload
\* save_clip returns str(filepath); server.upload_clip(clip_path, event_type,
\* current_location[...]) builds its data with os.path.getsize(filepath), which
\* raises FileNotFoundError on a missing file (only requests.RequestException is
\* caught), and posts it once.  The answer of the server changes nothing here.
UploadClip(t) ==
    /\ ext[t].pc = "upload"
    /\ LET p == ext[t].filepath
       IN IF p \in DOMAIN fs
          THEN /\ registered' = Append(registered,
                    [file_path |-> p, event_type |-> ext[t].event_type,
                     latitude |-> current_location.latitude,
                     longitude |-> current_location.longitude,
                     file_size_bytes |-> fs[p].size, thread |-> t])
               /\ ext' = [ext EXCEPT ![t].pc = "event"]
          ELSE /\ registered' = registered
               /\ ext' = [ext EXCEPT ![t].pc = "crashed"]
    /\ UNCHANGED <<now, USE_PICAMERA, recorderVars, mainVars, fs, events, shot>>

\* server.send_harsh_braking(sensor_data) / server.send_follow_distance(sensor_data):
\* sensor_data is the variable of main(), read when the call is made.
SendEvent(t) ==
    /\ ext[t].pc = "event"
    /\ events' = Append(events, [kind |-> ext[t].event_type, data |-> sensor_data,
                                 thread |-> t])
    /\ ext' = [ext EXCEPT ![t].pc = "done"]
    /\ UNCHANGED <<now, USE_PICAMERA, recorderVars, mainVars, fs, registered, shot>>

\* -------------------------------------------------------------------- stop
\* stop(), called from main()'s finally: self.is_recording = False
StopSignal ==
    /\ camera.stop = "idle"
    /\ is_recording' = FALSE
    /\ camera' = [camera EXCEPT !.stop = "flagged", !.pushed = Len(pushed)]
    /\ UNCHANGED <<now, USE_PICAMERA, buffer, lock, cap, pushed,
                   mainVars, ext, fs, serverVars, shot>>

\* if self.camera: self.camera.stop() / self.camera.release().  The camera
\* object is always true; stop() does not join the capture thread.
StopRelease ==
    /\ camera.stop = "flagged"
    /\ camera' = [camera EXCEPT !.stop = "done", !.open = FALSE]
    /\ UNCHANGED <<now, USE_PICAMERA, is_recording, buffer, lock, cap, pushed,
                   mainVars, ext, fs, serverVars, shot>>

\* ------------------------------------------------------ capture_screenshot
\* self.buffer[0] instead of self.buffer[-1] (the mutant of LatestFrame).
OldestFrame(b) == b[1]

\* _, frame = self.buffer[-1]
LatestFrame(b) == b[Len(b)]

\* capture_screenshot(event_type) is called: the file name is made, the lock is
\* taken; an empty buffer falls through to return "".
ScreenshotCall ==
    /\ shot.pc = "idle"
    /\ shot.calls < MaxShots
    /\ lock = NoThread
    /\ IF buffer # <<>>
       THEN /\ lock' = ShotThread
            /\ shot' = [shot EXCEPT !.pc = "imwrite", !.calls = @ + 1,
                                    !.filepath = ClipPath("manual", now, "jpg"),
                                    !.frame = LatestFrame(buffer),
                                    !.result = "pending"]
       ELSE /\ lock' = lock
            /\ shot' = [shot EXCEPT !.calls = @ + 1,
                                    !.filepath = ClipPath("manual", now, "jpg"),
                                    !.frame = <<>>, !.result = ""]
    /\ UNCHANGED <<now, USE_PICAMERA, is_recording, camera, buffer, cap, pushed,
                   mainVars, ext, fs, serverVars>>

\* cv2.imwrite(str(filepath), frame) under the lock, then return str(filepath).
\* imwrite that fails returns False, which the code does not look at.
ScreenshotWrite ==
    /\ shot.pc = "imwrite"
    /\ \E written \in BOOLEAN :
        fs' = IF written
              THEN [q \in DOMAIN fs \cup {shot.filepath} |->
                      IF q = shot.filepath
                      THEN [size |-> 1, mtime |-> now, open |-> {},
                            content |-> <<shot.frame>>]
                      ELSE fs[q]]
              ELSE fs
    /\ lock' = NoThread
    /\ shot' = [shot EXCEPT !.pc = "idle", !.result = shot.filepath]
    /\ UNCHANGED <<now, USE_PICAMERA, is_recording, camera, buffer, cap, pushed,
                   mainVars, ext, serverVars>>

\* ------------------------------------------------------- the specifications
\* A clip left in the directory by an earlier run.
OldClip == [size |-> MaxClipSize, mtime |-> -1, open |-> {}, content |-> <<>>]
OldPath == <<"manual", -1, "mp4">>
EmptyDir == [q \in {} |-> OldClip]

\* main() up to its loop: the recorder is constructed and started, the Arduino
\* connected or not; the directory is empty or holds a clip of an earlier run.
Init ==
    /\ now = 0
    /\ USE_PICAMERA \in BOOLEAN
    /\ is_recording = TRUE
    /\ buffer = <<>>
    /\ lock = NoThread
    /\ camera = [open |-> TRUE, stop |-> "idle", pushed |-> 0]
    /\ cap = [pc |-> "loop", frame |-> <<>>, wake |-> 0, late |-> FALSE]
    /\ pushed = <<>>
    /\ arduino_connected \in BOOLEAN
    /\ sensor_data = EmptyDict
    /\ line_read = [kind |-> "none", data |-> EmptyDict]
    /\ current_location = [latitude |-> 0, longitude |-> 0]
    /\ ext = [t \in Threads |-> UnbornThread]
    /\ fs \in {EmptyDir, [q \in {OldPath} |-> OldClip]}
    /\ registered = <<>>
    /\ events = <<>>
    /\ shot = [pc |-> "idle", calls |-> 0, filepath |-> <<>>, frame |-> <<>>,
               result |-> ""]

CaptureLoop == CaptureLoopTest \/ CaptureFrame \/ CapturePush \/ CaptureWake

Extractor(t) ==
    \/ SaveClipWake(t)
    \/ SaveClipSnapshot(t)
    \/ SaveClipOpen(t)
    \/ SaveClipWrite(t)
    \/ CleanupScan(t)
    \/ CleanupSort(t)
    \/ CleanupEvict(t)
    \/ UploadClip(t)
    \/ SendEvent(t)

Screenshot == ScreenshotCall \/ ScreenshotWrite

Stop == StopSignal \/ StopRelease

\* The recorder: the capture loop and the extractors that the triggers of a
\* sensor sending whole records start.
BufferTick == TickUntil(MaxTime)

NextBuffer ==
    \/ BufferTick
    \/ CaptureLoop
    \/ ReadBufferTrigger
    \/ \E t \in Threads : Extractor(t)

SpecBuffer == Init /\ [][NextBuffer]_vars

\* The capture loop and the callers of capture_screenshot.
NextShot ==
    \/ BufferTick
    \/ CaptureLoop
    \/ Screenshot

SpecShot == Init /\ [][NextShot]_vars

\* The clips: the dispatch loop and the extractors over the shared directory,
\* on the Pi camera, which has delivered no frame yet.
ClipTick == TickUntil(MaxClipTime)

NextClips ==
    \/ ClipTick
    \/ ReadTrigger
    \/ \E t \in Threads : Extractor(t)

\* The directory and the dispatch do not look at the camera: it is the Pi camera.
InitClips == Init /\ USE_PICAMERA

SpecClips == InitClips /\ [][NextClips]_vars

\* The dispatch loop alone, over every line the port may hold.
NextDispatch == ReadSensor

SpecDispatch == InitClips /\ [][NextDispatch]_vars

\* The life of the recorder: the capture loop and stop().
NextStop ==
    \/ BufferTick
    \/ CaptureLoop
    \/ Stop

SpecStop == Init /\ [][NextStop]_vars

\* Every thread of the program at once.
Next == NextBuffer \/ NextShot \/ NextClips \/ NextDispatch \/ NextStop

Spec == Init /\ [][Next]_vars

\* ------------------------------------------------------------- the claims
\* The threads whose save_clip has taken its snapshot.
Snapped(t) ==
    ext[t].pc \in {"open", "write", "scan", "sort", "evict", "upload", "event",
                   "done", "crashed"}

\* The threads whose save_clip has made its file name and has not ended.
InFlight(t) ==
    ext[t].pc \in {"snapshot", "open", "write", "scan", "sort", "evict", "upload",
                   "event"}

\* The threads that ended: save_and_upload returned, or an exception ended it.
Ended(t) == ext[t].pc \in {"done", "crashed"}

\* s is the last Len(s) elements of whole, in order.
IsSuffix(s, whole) ==
    /\ Len(s) <= Len(whole)
    /\ \A i \in 1..Len(s) : s[i] = whole[Len(whole) - Len(s) + i]

\* C1: after any pushes the buffer holds no more than Capacity frames, and they
\* are the most recent min(Capacity, pushes) frames in push order (so a push at
\* capacity dropped the one oldest frame and nothing else).
C1_BufferHoldsNewest ==
    /\ Len(buffer) <= Capacity
    /\ Len(buffer) = Min(Capacity, Len(pushed))
    /\ IsSuffix(buffer, pushed)

\* C1's case: the buffer is full and a push has evicted.
C1_Witness == Len(pushed) > Capacity /\ Len(buffer) = Capacity

\* C2: the frames save_clip keeps have increasing timestamps and all lie in
\* [event_time - seconds_before, event_time + seconds_after], or they are the
\* whole buffer as it was at the snapshot.  The claim is stated here for the
\* snapshots taken at the very end of the post-roll wait only, the case most
\* in its favour: a later snapshot also holds frames from after the window.
C2_SnapshotInsideWindow ==
    \A t \in Threads :
      (Snapped(t) /\ ext[t].snap_time = ext[t].event_time + ext[t].seconds_after * VIDEO_FPS) =>
        LET f == ext[t].frames
            lo == ext[t].event_time - ext[t].seconds_before * VIDEO_FPS
            hi == ext[t].event_time + ext[t].seconds_after * VIDEO_FPS
        IN /\ \A i, j \in 1..Len(f) : i < j => f[i][1] < f[j][1]
           /\ \/ \A i \in 1..Len(f) : lo <= f[i][1] /\ f[i][1] <= hi
              \/ f = ext[t].snap_buffer

\* C5: save_clip takes its snapshot no sooner than seconds_after after the
\* trigger, and what it hands to the encoder is at most (seconds_before +
\* seconds_after) * VIDEO_FPS frames: the newest frames of the buffer as it was
\* at the snapshot.
C5_PostRollThenNewest ==
    \A t \in Threads : Snapped(t) =>
        LET total == (ext[t].seconds_before + ext[t].seconds_after) * VIDEO_FPS
        IN /\ ext[t].snap_time >= ext[t].event_time + ext[t].seconds_after * VIDEO_FPS
           /\ Len(ext[t].frames) <= total
           /\ Len(ext[t].frames) = Min(total, Len(ext[t].snap_buffer))
           /\ IsSuffix(ext[t].frames, ext[t].snap_buffer)

\* C5's case: a snapshot of a buffer that holds more than the window's frames.
C5_Witness ==
    \E t \in Threads :
        /\ Snapped(t)
        /\ Len(ext[t].snap_buffer) >
              (ext[t].seconds_before + ext[t].seconds_after) * VIDEO_FPS
        /\ Len(ext[t].frames) > 0

\* C3: two extractions in flight at once write to two distinct paths.
C3_DistinctPaths ==
    \A t1, t2 \in Threads :
        (t1 # t2 /\ InFlight(t1) /\ InFlight(t2)) => ext[t1].filepath # ext[t2].filepath

\* C4: when every extractor started has finished (here: its encoder having
\* written its clip in full), there are as many clip files written as triggers.
C4_OneClipPerTrigger ==
    (\A t \in Spawned : ext[t].pc = "done" /\ ext[t].encode = "ok") =>
        Cardinality({ ext[t].filepath : t \in Spawned }) = Cardinality(Spawned)

\* The files a step removes from the directory.
Unlinked == DOMAIN fs \ DOMAIN fs'

\* C6, in the cleanup's own terms: a cleanup that finds the directory within
\* the limit deletes nothing; one that finds it above the limit deletes the
\* files of its listing oldest first, never a file that is newer than a file of
\* the listing it leaves, and ends only with its total down to 80% of the limit
\* or its listing used up.
C6_CleanupOldestFirstToTarget ==
    [][ \A t \in Threads :
          /\ (ext[t].pc = "scan" /\ ext'[t].pc = "upload") =>
                (~OverLimit(DirSize(fs)) /\ fs' = fs)
          /\ (ext[t].pc = "evict" /\ Unlinked # {}) =>
                \A p \in Unlinked :
                  \A i \in 1..Len(ext'[t].files) :
                    ext'[t].files[i] \in DOMAIN fs' =>
                        fs[p].mtime <= fs'[ext'[t].files[i]].mtime
          /\ (ext[t].pc = "evict" /\ ext'[t].pc \in {"upload", "crashed"}) =>
                (~OverTarget(ext[t].total_size) \/ ext[t].files = <<>>)
      ]_vars

\* C7: no step deletes a file that an extractor holds open for writing.
C7_NeverDeletesOpenFile ==
    [][ \A p \in Unlinked : fs[p].open = {} ]_vars

\* C8: an extractor whose encode-and-write failed registers nothing with the
\* upload collaborator, and once it has ended no partial file of its is left.
C8_FailedEncodeLeavesNothing ==
    \A t \in Threads :
        ext[t].encode \in {"partial", "nofile"} =>
            /\ \A i \in 1..Len(registered) : registered[i].thread # t
            /\ Ended(t) => ext[t].filepath \notin DOMAIN fs

\* The lines that are no JSON object.
Unparseable(line) == line.kind \in {"text", "badjson", "badutf8"}

\* The flag that starts an extraction of the given type.
FlagOf(etype) ==
    IF etype = "harsh_braking" THEN "harsh_braking_detected" ELSE "follow_distance_violation"

Screenshots == { p \in DOMAIN fs : p[3] = "jpg" }

C12_SnapshotIsCopyInPushOrder ==
    \A t \in Threads : Snapped(t) =>
        LET before == SubSeq(pushed, 1, ext[t].snap_pushed)
        IN /\ ext[t].snap_pushed <= Len(pushed)
           /\ ext[t].snap_buffer = LastN(before, Capacity)
           /\ IsSuffix(ext[t].frames, LastN(before, Capacity))
           /\ \A i, j \in 1..Len(ext[t].frames) :
                  i < j => ext[t].frames[i][2] < ext[t].frames[j][2]

\* C12's case: frames were pushed, and the buffer evicted, after a snapshot
\* that holds frames.
C12_Witness ==
    \E t \in Threads :
        /\ Snapped(t)
        /\ ext[t].frames # <<>>
        /\ Len(pushed) > ext[t].snap_pushed
        /\ Len(pushed) > Capacity
        /\ buffer # ext[t].snap_buffer

\* C13: no reader holds the buffer lock while it sleeps, encodes or writes a
\* file: the lock is free whenever capture_screenshot is at its imwrite, and
\* no extractor ever holds it between two of its steps.
C13_NoLockHeldWhileWriting ==
    /\ lock \notin Threads
    /\ shot.pc = "imwrite" => lock # ShotThread

\* C14: a cleanup that cannot inspect or delete a file goes on to the next
\* oldest file of its listing; the failure does not end the extractor.
C14_EvictionIsBestEffort ==
    [][ \A t \in Threads :
          (ext[t].pc = "evict" /\ ext'[t] # ext[t] /\ OverTarget(ext[t].total_size)
              /\ ext[t].files # <<>> /\ Head(ext[t].files) \notin DOMAIN fs) =>
                (ext'[t].pc = "evict" /\ ext'[t].files = Tail(ext[t].files))
      ]_vars

\* C16: no clip path is registered with upload_clip more than once, and no
\* extractor registers its event more than once.
C16_RegisteredAtMostOnce ==
    /\ \A i, j \in 1..Len(registered) :
          i # j => registered[i].file_path # registered[j].file_path
    /\ \A i, j \in 1..Len(events) : i # j => events[i].thread # events[j].thread

\* C17: the payload an extractor sends with its event is the record that
\* started it.
C17_PayloadIsTriggeringRecord ==
    \A i \in 1..Len(events) : events[i].data = ext[events[i].thread].trigger.data

\* C18: an extractor at its registration finds its clip on disk, so that every
\* extractor whose write completed and that has ended has registered its clip
\* and its event.
C18_ClipExistsAtRegistration ==
    \A t \in Threads :
        /\ (ext[t].pc = "upload" /\ ext[t].encode = "ok") => ext[t].filepath \in DOMAIN fs
        /\ (Ended(t) /\ ext[t].encode = "ok") =>
              /\ \E i \in 1..Len(registered) : registered[i].thread = t
              /\ \E i \in 1..Len(events) : events[i].thread = t

\* C19: a cleanup never comes to a file of its listing that another cleanup
\* has deleted: every turn of its loop finds the oldest file of its listing
\* still in the directory.
C19_CleanupsDoNotCollide ==
    [][ \A t \in Threads :
          (ext[t].pc = "evict" /\ ext'[t] # ext[t] /\ OverTarget(ext[t].total_size)
              /\ ext[t].files # <<>>) => Head(ext[t].files) \in DOMAIN fs
      ]_vars

\* The capture loop is running: it has neither returned nor ended otherwise.
CaptureLoopRuns == cap.pc \in {"loop", "capture", "push", "sleep"}

\* C15: as long as no stop was signalled the capture loop goes on, whatever
\* its capture calls came to; a capture that hands back no frame pushes none
\* and leaves the buffer as it was.
C15_FailedCaptureSkipsTick ==
    /\ [](camera.stop = "idle" => CaptureLoopRuns)
    /\ [][ (cap.pc = "capture" /\ cap' # cap /\ cap'.pc # "push") =>
                (cap'.pc = "sleep" /\ buffer' = buffer /\ pushed' = pushed) ]_vars

\* C11: once stop() has set the flag the capture loop pushes one more frame at
\* most and is not kept from ending (it is never left in a call that does not
\* return), and when stop() has returned the camera is released.
C11_StopEndsCaptureLoop ==
    /\ camera.stop # "idle" => Len(pushed) <= camera.pushed + 1
    /\ camera.stop # "idle" => cap.pc # "hung"
    /\ camera.stop = "done" => ~camera.open

\* C20: the capture thread makes no capture call on a camera that stop() has
\* released.
C20_NoCaptureAfterRelease == ~cap.late

====
